---- MODULE Spec2Model ----
(***************************************************************************)
(* Model of tar_checkpoints.py: the TarCheckpoints controller (a context   *)
(* manager), the add_files_daemon worker process it starts, the            *)
(* JoinableQueue between them, the tar archive the worker appends to, the  *)
(* filesystem the source files live on, and the static extract operation.  *)
(***************************************************************************)
EXTENDS Integers, Sequences, FiniteSets, TLC

\* ------------------------------------------------------------------ bounds
MaxSessions == 2
MaxTasks == 2

Sessions == 1..MaxSessions

\* ------------------------------------------------------------------ inputs
\* Source paths, as sequences of components; the last one is the basename.
\* Both files have the same basename, in different directories.
PathA == <<"run", "w.pt">>
PathB == <<"tmp", "w.pt">>
Paths == {PathA, PathB}

Absent == "<absent>"

\* The files on disk when the program starts.
InitialFs == [p \in Paths |-> IF p = PathA THEN "bytes-A" ELSE "bytes-B"]

\* Epochs handed to tar_files and extract: one of five digits or fewer, one of more.
Epochs == {1, 100001}

\* File lists handed to tar_files.
FileLists == {<<PathA>>, <<PathB>>, <<PathA, PathB>>}

\* Destinations handed to extract; None is the default argument.
None == "<None>"
Destinations == {None, "out"}

\* The archive path given to the constructor, as <<stem, extension>>.
TarFp == <<"my_tar_file", ".tar">>

\* ------------------------------------------------------------------ items
Task(epoch, files) == [kind |-> "task", epoch |-> epoch, files |-> files]
Sentinel == [kind |-> "break", epoch |-> 0, files |-> <<>>]
NoTask == [kind |-> "none", epoch |-> 0, files |-> <<>>]

\* ------------------------------------------------------------------ names
DigitChar == <<"0", "1", "2", "3", "4", "5", "6", "7", "8", "9">>

RECURSIVE Digits(_)
Digits(n) == IF n < 10 THEN <<DigitChar[n + 1]>>
             ELSE Digits(n \div 10) \o <<DigitChar[(n % 10) + 1]>>

RECURSIVE ZeroPad(_, _)
ZeroPad(s, width) == IF Len(s) >= width THEN s ELSE ZeroPad(<<"0">> \o s, width)

PadWidth == 5

\* Format05d keeping five digits only, the higher ones cut off.
Format05d_Truncated(epoch) == ZeroPad(Digits(epoch % 100000), PadWidth)

\* f"{epoch:05d}": the sign counts towards the width.
Format05d(epoch) == IF epoch >= 0 THEN ZeroPad(Digits(epoch), PadWidth)
                    ELSE <<"-">> \o ZeroPad(Digits(-epoch), PadWidth - 1)

Basename(file) == file[Len(file)]

\* f"{epoch:05d}/{os.path.basename(file)}"
ArchName(epoch, file) == Format05d(epoch) \o <<"/">> \o <<Basename(file)>>

\* f"{epoch:05d}/"
EpochStr(epoch) == Format05d(epoch) \o <<"/">>

StartsWith(s, prefix) == /\ Len(prefix) <= Len(s)
                         /\ SubSeq(s, 1, Len(prefix)) = prefix

Entry(name, content) == [name |-> name, content |-> content]

VARIABLES
    daemon,       \* self.daemon / self.queue: 0 is None, else the session they belong to
    nSessions,    \* number of __enter__ calls so far
    inScope,      \* the caller is inside the with block
    callerPc,     \* where the caller's thread of control is
    pending,      \* the task tar_files is about to put
    lastResult,   \* how the caller's last call ended
    scopeError,   \* the with block was left by an exception
    deact,        \* per session: how _await_queue ended
    queue,        \* per session: the JoinableQueue's items
    unfinished,   \* per session: the JoinableQueue's unfinished-task count
    wpc,          \* per session: where the worker process is
    wtask,        \* per session: the task the worker holds
    widx,         \* per session: index of the file add_files is at
    tarOpen,      \* per session: the worker's TarFile handle is open
    archive,      \* the tar file's members, in order
    archiveExists,\* the tar file exists on disk
    fs,           \* the source filesystem: path -> content or Absent
    locked,       \* paths os.remove cannot delete
    accepted,     \* per session: tasks put by tar_files, in order
    appended,     \* per session: what the worker appended, in order: epoch, file, content
    exDirs,       \* directories extract created
    exFiles,      \* files extract wrote: path -> content
    exRet,        \* what the last extract returned
    exArgs        \* the last extract's arguments: <<epoch, path>>

controller == <<daemon, nSessions, inScope, callerPc, pending, lastResult, scopeError, deact>>
channel == <<queue, unfinished>>
worker == <<wpc, wtask, widx, tarOpen>>
disk == <<archive, archiveExists, fs, locked>>
history == <<accepted, appended>>
extraction == <<exDirs, exFiles, exRet, exArgs>>
vars == <<controller, channel, worker, disk, history, extraction>>

Result(call, outcome) == [call |-> call, outcome |-> outcome]

Init ==
    /\ daemon = 0
    /\ nSessions = 0
    /\ inScope = FALSE
    /\ callerPc = "idle"
    /\ pending = NoTask
    /\ lastResult = Result("none", "ok")
    /\ scopeError = FALSE
    /\ deact = [s \in Sessions |-> "none"]
    /\ queue = [s \in Sessions |-> <<>>]
    /\ unfinished = [s \in Sessions |-> 0]
    /\ wpc = [s \in Sessions |-> "none"]
    /\ wtask = [s \in Sessions |-> NoTask]
    /\ widx = [s \in Sessions |-> 0]
    /\ tarOpen = [s \in Sessions |-> FALSE]
    /\ archive = <<>>
    /\ archiveExists = FALSE
    /\ fs = InitialFs
    /\ locked \in {{}, {PathB}}
    /\ accepted = [s \in Sessions |-> <<>>]
    /\ appended = [s \in Sessions |-> <<>>]
    /\ exDirs = {}
    /\ exFiles = <<>>
    /\ exRet = <<>>
    /\ exArgs = <<>>

\* Process.is_alive()
IsAlive(s) == wpc[s] \notin {"none", "exited", "died", "killed"}

RECURSIVE SumLen(_, _)
SumLen(f, S) == IF S = {} THEN 0
                ELSE LET s == CHOOSE x \in S : TRUE
                     IN Len(f[s]) + SumLen(f, S \ {s})

TotalAccepted == SumLen(accepted, Sessions)

\* ------------------------------------------------------------ the caller
\* __enter__: a fresh queue, a started process.
Enter ==
    /\ callerPc = "idle"
    /\ ~inScope
    /\ nSessions < MaxSessions
    /\ nSessions' = nSessions + 1
    /\ daemon' = nSessions + 1
    /\ wpc' = [wpc EXCEPT ![nSessions + 1] = "open"]
    /\ inScope' = TRUE
    /\ scopeError' = FALSE
    /\ lastResult' = Result("enter", "ok")
    /\ UNCHANGED <<callerPc, pending, deact, channel, wtask, widx, tarOpen, disk,
                   history, extraction>>

\* QueuePut on a queue built with maxsize=1: put waits for a free slot.
QueuePut_Bounded(s, item) ==
    /\ Len(queue[s]) < 1
    /\ queue' = [queue EXCEPT ![s] = Append(@, item)]
    /\ unfinished' = [unfinished EXCEPT ![s] = @ + 1]

\* JoinableQueue.put
QueuePut(s, item) ==
    /\ queue' = [queue EXCEPT ![s] = Append(@, item)]
    /\ unfinished' = [unfinished EXCEPT ![s] = @ + 1]

\* TarFilesCheck without the is_alive check.
TarFilesCheck_NoAliveCheck(epoch, filepaths) ==
    /\ callerPc = "idle"
    /\ IF daemon = 0
       THEN /\ lastResult' = Result("tar_files", "usage")
            /\ UNCHANGED <<callerPc, pending>>
       ELSE /\ TotalAccepted < MaxTasks
            /\ pending' = Task(epoch, filepaths)
            /\ callerPc' = "tf_put"
            /\ UNCHANGED lastResult
    /\ UNCHANGED <<daemon, nSessions, inScope, scopeError, deact, channel, worker,
                   disk, history, extraction>>

\* tar_files, up to the put: the two checks.
TarFilesCheck(epoch, filepaths) ==
    /\ callerPc = "idle"
    /\ IF daemon = 0
       THEN /\ lastResult' = Result("tar_files", "usage")
            /\ UNCHANGED <<callerPc, pending>>
       ELSE IF ~IsAlive(daemon)
       THEN /\ lastResult' = Result("tar_files", "fatal")
            /\ UNCHANGED <<callerPc, pending>>
       ELSE /\ TotalAccepted < MaxTasks
            /\ pending' = Task(epoch, filepaths)
            /\ callerPc' = "tf_put"
            /\ UNCHANGED lastResult
    /\ UNCHANGED <<daemon, nSessions, inScope, scopeError, deact, channel, worker,
                   disk, history, extraction>>

\* tar_files, the put.
TarFilesPut ==
    /\ callerPc = "tf_put"
    /\ QueuePut(daemon, pending)
    /\ accepted' = [accepted EXCEPT ![daemon] = Append(@, pending)]
    /\ pending' = NoTask
    /\ callerPc' = "idle"
    /\ lastResult' = Result("tar_files", "ok")
    /\ UNCHANGED <<daemon, nSessions, inScope, scopeError, deact, worker, disk,
                   appended, extraction>>

\* __exit__ -> _await_queue: put the sentinel. raised: the block ended by an exception.
ExitPut(raised) ==
    /\ callerPc = "idle"
    /\ inScope
    /\ QueuePut(daemon, Sentinel)
    /\ scopeError' = raised
    /\ deact' = [deact EXCEPT ![daemon] = "running"]
    /\ callerPc' = "exit_alive"
    /\ UNCHANGED <<daemon, nSessions, inScope, pending, lastResult, worker, disk,
                   history, extraction>>

\* _await_queue: the liveness check.
ExitAlive ==
    /\ callerPc = "exit_alive"
    /\ IF IsAlive(daemon)
       THEN /\ callerPc' = "exit_join"
            /\ UNCHANGED <<inScope, lastResult, deact>>
       ELSE /\ callerPc' = "idle"
            /\ inScope' = FALSE
            /\ lastResult' = Result("exit", "inconsistent")
            /\ deact' = [deact EXCEPT ![daemon] = "raised"]
    /\ UNCHANGED <<daemon, nSessions, pending, scopeError, channel, worker, disk,
                   history, extraction>>

\* join returning without waiting.
JoinReturns_NoWait(s) == TRUE

\* JoinableQueue.join returns when nothing is unfinished.
JoinReturns(s) == unfinished[s] = 0

ExitJoin ==
    /\ callerPc = "exit_join"
    /\ JoinReturns(daemon)
    /\ callerPc' = "exit_kill"
    /\ UNCHANGED <<daemon, nSessions, inScope, pending, lastResult, scopeError, deact,
                   channel, worker, disk, history, extraction>>

\* Process.kill
ExitKill ==
    /\ callerPc = "exit_kill"
    /\ wpc' = [wpc EXCEPT ![daemon] = IF IsAlive(daemon) THEN "killed" ELSE @]
    /\ callerPc' = "idle"
    /\ inScope' = FALSE
    /\ lastResult' = Result("exit", "ok")
    /\ deact' = [deact EXCEPT ![daemon] = "returned"]
    /\ UNCHANGED <<daemon, nSessions, pending, scopeError, channel, wtask, widx,
                   tarOpen, disk, history, extraction>>

\* ------------------------------------------------------------ the worker
\* AfterFile returning to the loop at once, whatever is left of the task.
AfterFile_FirstOnly(task, i) == "task_done"

\* Where add_files goes after file i of the task: the next file, or back to the loop.
AfterFile(task, i) == IF i > Len(task.files) THEN "task_done" ELSE "add"

\* WorkerOpen with mode "w:": the archive is opened empty.
WorkerOpen_Truncate(s) ==
    /\ wpc[s] = "open"
    /\ tarOpen' = [tarOpen EXCEPT ![s] = TRUE]
    /\ archiveExists' = TRUE
    /\ archive' = <<>>
    /\ wpc' = [wpc EXCEPT ![s] = "get"]
    /\ UNCHANGED <<controller, channel, wtask, widx, fs, locked, history, extraction>>

\* tarfile.open(tar_fp, "a:"): creates the file when it is missing, keeps its members.
WorkerOpen(s) ==
    /\ wpc[s] = "open"
    /\ tarOpen' = [tarOpen EXCEPT ![s] = TRUE]
    /\ archiveExists' = TRUE
    /\ wpc' = [wpc EXCEPT ![s] = "get"]
    /\ UNCHANGED <<controller, channel, wtask, widx, archive, fs, locked, history,
                   extraction>>

\* WorkerGet taking the newest item instead of the oldest.
WorkerGet_Lifo(s) ==
    /\ wpc[s] = "get"
    /\ queue[s] # <<>>
    /\ LET item == queue[s][Len(queue[s])]
       IN /\ queue' = [queue EXCEPT ![s] = SubSeq(@, 1, Len(@) - 1)]
          /\ IF item = Sentinel
             THEN /\ wpc' = [wpc EXCEPT ![s] = "close"]
                  /\ UNCHANGED <<wtask, widx>>
             ELSE /\ wtask' = [wtask EXCEPT ![s] = item]
                  /\ widx' = [widx EXCEPT ![s] = 1]
                  /\ wpc' = [wpc EXCEPT ![s] = AfterFile(item, 1)]
    /\ UNCHANGED <<controller, unfinished, tarOpen, disk, history, extraction>>

\* task = queue.get(True); the sentinel breaks out of the loop.
WorkerGet(s) ==
    /\ wpc[s] = "get"
    /\ queue[s] # <<>>
    /\ LET item == Head(queue[s])
       IN /\ queue' = [queue EXCEPT ![s] = Tail(@)]
          /\ IF item = Sentinel
             THEN /\ wpc' = [wpc EXCEPT ![s] = "close"]
                  /\ UNCHANGED <<wtask, widx>>
             ELSE /\ wtask' = [wtask EXCEPT ![s] = item]
                  /\ widx' = [widx EXCEPT ![s] = 1]
                  /\ wpc' = [wpc EXCEPT ![s] = AfterFile(item, 1)]
    /\ UNCHANGED <<controller, unfinished, tarOpen, disk, history, extraction>>

Archived(epoch, file, content) == [epoch |-> epoch, file |-> file, content |-> content]

\* The member tarf.add(name=file, arcname=archname) writes.
AddedEntry(epoch, file) == Entry(ArchName(epoch, file), fs[file])

\* WorkerAdd without the tarf.add call: the file goes on to be removed unarchived.
WorkerAdd_NoAppend(s) ==
    /\ wpc[s] = "add"
    /\ wpc' = [wpc EXCEPT ![s] = "remove"]
    /\ UNCHANGED <<controller, channel, wtask, widx, tarOpen, disk, history, extraction>>

\* tarf.add: raises when the file is not there, before anything is written.
WorkerAdd(s) ==
    /\ wpc[s] = "add"
    /\ LET file == wtask[s].files[widx[s]]
       IN IF fs[file] = Absent
          THEN /\ wpc' = [wpc EXCEPT ![s] = "unwind"]
               /\ UNCHANGED <<archive, appended>>
          ELSE /\ archive' = Append(archive, AddedEntry(wtask[s].epoch, file))
               /\ appended' = [appended EXCEPT
                                 ![s] = Append(@, Archived(wtask[s].epoch, file, fs[file]))]
               /\ wpc' = [wpc EXCEPT ![s] = "remove"]
    /\ UNCHANGED <<controller, channel, wtask, widx, tarOpen, archiveExists, fs, locked,
                   accepted, extraction>>

\* WorkerRemove without the os.remove call.
WorkerRemove_NoDelete(s) ==
    /\ wpc[s] = "remove"
    /\ widx' = [widx EXCEPT ![s] = @ + 1]
    /\ wpc' = [wpc EXCEPT ![s] = AfterFile(wtask[s], widx[s] + 1)]
    /\ UNCHANGED <<controller, channel, wtask, tarOpen, disk, history, extraction>>

\* os.remove(file): raises when the file cannot be deleted.
WorkerRemove(s) ==
    /\ wpc[s] = "remove"
    /\ LET file == wtask[s].files[widx[s]]
       IN IF file \in locked
          THEN /\ wpc' = [wpc EXCEPT ![s] = "unwind"]
               /\ UNCHANGED <<fs, widx>>
          ELSE /\ fs' = [fs EXCEPT ![file] = Absent]
               /\ widx' = [widx EXCEPT ![s] = @ + 1]
               /\ wpc' = [wpc EXCEPT ![s] = AfterFile(wtask[s], widx[s] + 1)]
    /\ UNCHANGED <<controller, channel, wtask, tarOpen, archive, archiveExists, locked,
                   history, extraction>>

\* JoinableQueue.task_done
QueueTaskDone(s) == unfinished' = [unfinished EXCEPT ![s] = @ - 1]

\* queue.task_done() inside the loop.
WorkerTaskDone(s) ==
    /\ wpc[s] = "task_done"
    /\ QueueTaskDone(s)
    /\ wtask' = [wtask EXCEPT ![s] = NoTask]
    /\ widx' = [widx EXCEPT ![s] = 0]
    /\ wpc' = [wpc EXCEPT ![s] = "get"]
    /\ UNCHANGED <<controller, queue, tarOpen, disk, history, extraction>>

\* Leaving the with block after break: the archive is closed.
WorkerClose(s) ==
    /\ wpc[s] = "close"
    /\ tarOpen' = [tarOpen EXCEPT ![s] = FALSE]
    /\ wpc' = [wpc EXCEPT ![s] = "last_done"]
    /\ UNCHANGED <<controller, channel, wtask, widx, disk, history, extraction>>

\* The queue.task_done() after the with block.
WorkerLastDone(s) ==
    /\ wpc[s] = "last_done"
    /\ QueueTaskDone(s)
    /\ wpc' = [wpc EXCEPT ![s] = "exit"]
    /\ UNCHANGED <<controller, queue, wtask, widx, tarOpen, disk, history, extraction>>

\* add_files_daemon returns and the process ends.
WorkerExit(s) ==
    /\ wpc[s] = "exit"
    /\ wpc' = [wpc EXCEPT ![s] = "exited"]
    /\ UNCHANGED <<controller, channel, wtask, widx, tarOpen, disk, history, extraction>>

\* WorkerUnwind with the task_done in a finally clause: the failing item is
\* acknowledged on the way out.
WorkerUnwind_Ack(s) ==
    /\ wpc[s] = "unwind"
    /\ tarOpen' = [tarOpen EXCEPT ![s] = FALSE]
    /\ unfinished' = [unfinished EXCEPT ![s] = @ - 1]
    /\ wpc' = [wpc EXCEPT ![s] = "died"]
    /\ UNCHANGED <<controller, queue, wtask, widx, disk, history, extraction>>

\* WorkerUnwind with the archive opened outside a with block: the exception ends
\* the process and nothing closes the archive.
WorkerUnwind_NoClose(s) ==
    /\ wpc[s] = "unwind"
    /\ wpc' = [wpc EXCEPT ![s] = "died"]
    /\ UNCHANGED <<controller, channel, wtask, widx, tarOpen, disk, history, extraction>>

\* An exception leaves the with block (the archive is closed) and ends the process;
\* the task_done after the block is not reached.
WorkerUnwind(s) ==
    /\ wpc[s] = "unwind"
    /\ tarOpen' = [tarOpen EXCEPT ![s] = FALSE]
    /\ wpc' = [wpc EXCEPT ![s] = "died"]
    /\ UNCHANGED <<controller, channel, wtask, widx, disk, history, extraction>>

WorkerStep(s) ==
    \/ WorkerOpen(s)
    \/ WorkerGet(s)
    \/ WorkerAdd(s)
    \/ WorkerRemove(s)
    \/ WorkerTaskDone(s)
    \/ WorkerClose(s)
    \/ WorkerLastDone(s)
    \/ WorkerExit(s)
    \/ WorkerUnwind(s)

\* ----------------------------------------------------------------- extract
\* SelectedMembers without the filter on the epoch prefix.
SelectedMembers_All(members, epoch) == members

\* The members extract selects: those whose name starts with epoch_str.
SelectedMembers(members, epoch) ==
    SelectSeq(members, LAMBDA m : StartsWith(m.name, EpochStr(epoch)))

\* os.path.splitext(os.path.basename(tar_fp))[0]
DefaultPath == TarFp[1]

\* A member name's directory part and file part, split at its separator.
SlashAt(name) == CHOOSE i \in 1..Len(name) : name[i] = "/"
NameDir(name) == SubSeq(name, 1, SlashAt(name) - 1)
NameFile(name) == name[Len(name)]

\* Where tarf.extract(m, path) writes member m.
ExtractedPath(path, name) == <<path, NameDir(name), NameFile(name)>>

\* os.path.join(path, epoch_str)
ReturnedPath(path, epoch) == <<path, Format05d(epoch)>>

\* tarf.extract(m, path) for each selected member in turn: the directories are
\* created as needed and a file already there is overwritten.
RECURSIVE ExtractFiles(_, _, _)
ExtractFiles(files, members, path) ==
    IF members = <<>> THEN files
    ELSE LET m == Head(members)
             target == ExtractedPath(path, m.name)
             written == [q \in DOMAIN files \cup {target} |->
                           IF q = target THEN m.content ELSE files[q]]
         IN ExtractFiles(written, Tail(members), path)

ExtractDirs(members, path) ==
    UNION {{<<path>>, <<path, NameDir(members[i].name)>>} : i \in DOMAIN members}

\* TarCheckpoints.extract(tar_fp, epoch, path), called outside the with block.
Extract(epoch, dst) ==
    /\ callerPc = "idle"
    /\ ~inScope
    /\ exArgs' = <<epoch, dst>>
    /\ IF ~archiveExists
       THEN /\ lastResult' = Result("extract", "no_archive")
            /\ UNCHANGED <<exDirs, exFiles, exRet>>
       ELSE LET path == IF dst = None THEN DefaultPath ELSE dst
                selected == SelectedMembers(archive, epoch)
            IN /\ exFiles' = ExtractFiles(exFiles, selected, path)
               /\ exDirs' = exDirs \cup ExtractDirs(selected, path)
               /\ exRet' = ReturnedPath(path, epoch)
               /\ lastResult' = Result("extract", "ok")
    /\ UNCHANGED <<daemon, nSessions, inScope, callerPc, pending, scopeError, deact,
                   channel, worker, disk, history>>

\* ------------------------------------------------------------------- system
Next ==
    \/ Enter
    \/ \E epoch \in Epochs, filepaths \in FileLists : TarFilesCheck(epoch, filepaths)
    \/ TarFilesPut
    \/ \E raised \in BOOLEAN : ExitPut(raised)
    \/ ExitAlive
    \/ ExitJoin
    \/ ExitKill
    \/ \E s \in Sessions : WorkerStep(s)

Spec == Init /\ [][Next]_vars

\* The program's run followed by one extraction from the archive it left: extract
\* reads nothing but the archive and the run reads nothing extract writes.
Extracted == lastResult.call = "extract"

NextExtract ==
    \/ ~Extracted /\ Enter
    \/ ~Extracted /\ \E epoch \in Epochs, filepaths \in FileLists :
                         TarFilesCheck(epoch, filepaths)
    \/ ~Extracted /\ TarFilesPut
    \/ ~Extracted /\ \E raised \in BOOLEAN : ExitPut(raised)
    \/ ~Extracted /\ ExitAlive
    \/ ~Extracted /\ ExitJoin
    \/ ~Extracted /\ ExitKill
    \/ ~Extracted /\ \E s \in Sessions : WorkerStep(s)
    \/ ~Extracted /\ \E epoch \in Epochs, dst \in Destinations : Extract(epoch, dst)

SpecExtract == Init /\ [][NextExtract]_vars

\* ------------------------------------------------------------------- claims
\* The epochs of the model, zero-padded to five digits, written out.
PaddedEpoch(epoch) == CASE epoch = 1 -> <<"0", "0", "0", "0", "1">>
                        [] epoch = 100001 -> <<"1", "0", "0", "0", "0", "1">>

ExpectedName(epoch, file) == PaddedEpoch(epoch) \o <<"/", file[Len(file)]>>

\* Every file of every task session s accepted is in the archive under its entry
\* name with the content it had, and is gone from its path.
AllArchived(s) ==
    \A i \in DOMAIN accepted[s] : \A j \in DOMAIN accepted[s][i].files :
        LET t == accepted[s][i]
            f == t.files[j]
        IN /\ \E k \in DOMAIN archive :
                 archive[k] = Entry(ExpectedName(t.epoch, f), InitialFs[f])
           /\ fs[f] = Absent

\* C1: once a session's deactivation has returned without raising, every file of
\* every task that session accepted is in the archive under
\* <epoch padded to 5 digits>/<basename> with its original content and no longer
\* exists at its path.
C1_NoDataLoss == \A s \in Sessions : deact[s] = "returned" => AllArchived(s)

\* A deactivation returned after a task of two files was accepted.
C1_Witness ==
    \E s \in Sessions :
        /\ deact[s] = "returned"
        /\ \E i \in DOMAIN accepted[s] : Len(accepted[s][i].files) = 2

\* What the tasks, taken in order, each file list in order, ask to be appended.
RECURSIVE ExpectedAppends(_)
ExpectedAppends(tasks) ==
    IF tasks = <<>> THEN <<>>
    ELSE LET t == Head(tasks)
         IN [j \in DOMAIN t.files |-> Archived(t.epoch, t.files[j], InitialFs[t.files[j]])]
            \o ExpectedAppends(Tail(tasks))

IsPrefix(a, b) == Len(a) <= Len(b) /\ a = SubSeq(b, 1, Len(a))

RECURSIVE AllAppended(_)
AllAppended(n) == IF n = 0 THEN <<>> ELSE AllAppended(n - 1) \o appended[n]

\* C2: what a session's worker has appended is, at every moment, an initial part of
\* the accepted tasks' files in enqueue order and list order, all of it once the
\* deactivation has returned; the archive holds these entries in that order.
C2_Ordering ==
    /\ \A s \in Sessions : IsPrefix(appended[s], ExpectedAppends(accepted[s]))
    /\ \A s \in Sessions :
          deact[s] = "returned" => appended[s] = ExpectedAppends(accepted[s])
    /\ archive = [k \in DOMAIN AllAppended(MaxSessions) |->
                    LET h == AllAppended(MaxSessions)[k]
                    IN Entry(ExpectedName(h.epoch, h.file), h.content)]

\* Two tasks were accepted in one session and both have been appended.
C2_Witness ==
    \E s \in Sessions :
        /\ Len(accepted[s]) = 2
        /\ Len(appended[s]) = 2
        /\ appended[s][1].file # appended[s][2].file
        /\ accepted[s][1].files = <<appended[s][1].file>>

\* The caller is inside _await_queue.
Deactivating == callerPc \in {"exit_alive", "exit_join", "exit_kill"}

\* C3: deactivation never hangs: while the caller is inside _await_queue some step
\* of the caller or of the worker is always possible, so under fair scheduling the
\* call finishes, returning or raising.
C3_DeactivateNeverStuck == Deactivating => ENABLED Next

\* The deactivation of session s has finished, returning or raising.
DeactivationFinished(s) == deact[s] \in {"returned", "raised"}

\* The with block of the current session was left by an exception after tasks were
\* accepted, and its deactivation has finished.
LeftByError(s) ==
    /\ daemon = s
    /\ scopeError
    /\ accepted[s] # <<>>
    /\ DeactivationFinished(s)

Drained(s) == AllArchived(s) /\ unfinished[s] = 0 /\ queue[s] = <<>> /\ ~IsAlive(s)

C5_UsageErrorOutsideSession ==
    (callerPc = "idle" /\ ~inScope /\ lastResult.call = "tar_files")
        => lastResult.outcome = "usage"

\* C6: in an active session a tar_files call that finds the worker not alive raises
\* the fatal error and leaves the queue and its unfinished count as they were; one
\* that finds it alive goes on to put exactly one task {epoch, files} at the tail.
C6_EnqueueLiveness ==
    [][/\ (callerPc = "idle" /\ inScope /\ ~IsAlive(daemon) /\ callerPc' # "exit_alive")
          => /\ callerPc' = "idle"
             /\ channel' = channel
             /\ accepted' = accepted
             /\ lastResult' # lastResult => lastResult' = Result("tar_files", "fatal")
       /\ (callerPc = "idle" /\ inScope /\ IsAlive(daemon) /\ controller' # controller)
          => /\ callerPc' \in {"tf_put", "exit_alive"}
             /\ callerPc' = "tf_put" => pending'.kind = "task" /\ channel' = channel
       /\ (callerPc = "tf_put" /\ callerPc' # "tf_put")
          => /\ callerPc' = "idle"
             /\ lastResult' = Result("tar_files", "ok")
             /\ queue' = [queue EXCEPT ![daemon] = Append(@, pending)]
             /\ unfinished' = [unfinished EXCEPT ![daemon] = @ + 1]
      ]_vars

\* A call was rejected as fatal in a session that had accepted a task before.
C6_Witness ==
    /\ inScope
    /\ lastResult = Result("tar_files", "fatal")
    /\ accepted[daemon] # <<>>

\* The steps of the caller's thread of control.
CallerStep ==
    \/ Enter
    \/ \E epoch \in Epochs, filepaths \in FileLists : TarFilesCheck(epoch, filepaths)
    \/ TarFilesPut
    \/ \E raised \in BOOLEAN : ExitPut(raised)
    \/ ExitAlive
    \/ ExitJoin
    \/ ExitKill

\* C7: tar_files never waits: its put can be taken whatever the queue holds and
\* wherever the worker is, and with the worker alive the call itself can be taken;
\* the only place the caller cannot take a step is the join of _await_queue.
C7_EnqueueNonBlocking ==
    /\ callerPc = "tf_put" => ENABLED TarFilesPut
    /\ (callerPc = "idle" /\ inScope /\ IsAlive(daemon) /\ TotalAccepted < MaxTasks)
          => \A epoch \in Epochs, filepaths \in FileLists :
                ENABLED TarFilesCheck(epoch, filepaths)
    /\ ~ENABLED CallerStep => callerPc = "exit_join"

\* The caller is about to put a second task while the first is still queued.
C7_Witness ==
    /\ callerPc = "tf_put"
    /\ Len(queue[daemon]) = 1
    /\ queue[daemon][1].kind = "task"

\* The worker of session s ended because an append or delete raised.
Failed(s) == wpc[s] = "died"

\* C8: once the worker has ended on a failed append or delete, the failing task
\* stays unacknowledged, nothing more is appended, every later tar_files call and
\* the later liveness check of _await_queue raise instead of putting or joining,
\* and the session's deactivation never returns normally; nor does it in any
\* session in which an accepted task is not fully archived.
C8_FailureSurfaced ==
    /\ [](\A s \in Sessions : Failed(s) =>
            /\ wtask[s].kind = "task"
            /\ unfinished[s] = Len(queue[s]) + 1
            /\ deact[s] # "returned")
    /\ [](\A s \in Sessions : ~AllArchived(s) => deact[s] # "returned")
    /\ [][\A s \in Sessions : Failed(s) =>
            /\ Failed(s)'
            /\ appended'[s] = appended[s]
            /\ daemon = s => archive' = archive
            /\ wtask'[s] = wtask[s]
            /\ unfinished'[s] >= unfinished[s]
            /\ (daemon = s /\ callerPc = "idle")
                  => /\ callerPc' \in {"idle", "exit_alive"}
                     /\ (lastResult' # lastResult /\ lastResult'.call = "tar_files")
                           => lastResult'.outcome = "fatal"
            /\ (daemon = s /\ callerPc = "exit_alive" /\ callerPc' # callerPc)
                  => /\ callerPc' = "idle"
                     /\ lastResult' = Result("exit", "inconsistent")
                     /\ deact'[s] = "raised"
      ]_vars

\* The worker failed on the second of two accepted tasks and deactivation raised.
C8_Witness ==
    \E s \in Sessions :
        /\ Failed(s)
        /\ deact[s] = "raised"
        /\ Len(accepted[s]) = 2
        /\ Len(appended[s]) = 1

\* What the workers appended for epoch k, over all sessions, in archive order.
ArchivedFor(k) == SelectSeq(AllAppended(MaxSessions), LAMBDA h : h.epoch = k)

\* The directory the extraction of epoch k into dst is to fill.
EpochDirectory(k, dst) == <<IF dst = None THEN "my_tar_file" ELSE dst, PaddedEpoch(k)>>

ExtractionDone == Extracted /\ lastResult.outcome = "ok"

\* C9: after archiving, extract(archive, k) returns <destination>/<k padded to 5
\* digits>, and the files it wrote are exactly the files archived for epoch k, each
\* in that directory under its basename with the content archived under that name
\* (the last one, should the caller have archived one basename twice in the epoch);
\* no member of another epoch is extracted.
C9_RoundTrip ==
    ExtractionDone =>
        LET k == exArgs[1]
            dir == EpochDirectory(k, exArgs[2])
            hist == ArchivedFor(k)
            Target(h) == dir \o <<h.file[Len(h.file)]>>
        IN /\ exRet = dir
           /\ DOMAIN exFiles = {Target(hist[i]) : i \in DOMAIN hist}
           /\ \A i \in DOMAIN hist :
                 (\A j \in DOMAIN hist : j > i => Target(hist[j]) # Target(hist[i]))
                    => exFiles[Target(hist[i])] = hist[i].content

\* An epoch was extracted from an archive that holds that epoch and another one,
\* both with a file of the same basename.
C9_Witness ==
    /\ ExtractionDone
    /\ Len(ArchivedFor(exArgs[1])) = 1
    /\ \E k \in Epochs : k # exArgs[1] /\ Len(ArchivedFor(k)) = 1

\* C10: when no member belongs to the requested epoch, extract raises nothing and
\* the path it returns is a directory that exists and is empty.
C10_EmptyEpochDirectory ==
    (ExtractionDone /\ ArchivedFor(exArgs[1]) = <<>>)
        => /\ exRet \in exDirs
           /\ \A q \in DOMAIN exFiles : SubSeq(q, 1, 2) # exRet

\* The worker of session s has taken the sentinel off its queue.
SentinelTaken(s) == wpc[s] \in {"close", "last_done", "exit", "exited", "killed"}

InsideWith(s) == wpc[s] \in {"get", "add", "remove", "task_done", "close", "unwind"}

\* The worker of session s has left the with block, by the sentinel or by an exception.
LeftWith(s) == wpc[s] \in {"last_done", "exit", "exited", "died", "killed"}

\* C12: a worker holds the archive open exactly between its one tarfile.open and the
\* end of its with block, which it leaves once, on the sentinel and on a raised
\* append or delete alike, never to open again; it appends only with the archive
\* open, and acknowledges the sentinel only with the archive closed.
C12_HandleLifecycle ==
    /\ [](\A s \in Sessions :
            /\ tarOpen[s] <=> InsideWith(s)
            /\ LeftWith(s) => ~tarOpen[s])
    /\ [][\A s \in Sessions :
            /\ (~tarOpen[s] /\ tarOpen'[s]) => wpc[s] = "open"
            /\ wpc'[s] = "open" => wpc[s] \in {"none", "open"}
            /\ (tarOpen[s] /\ ~tarOpen'[s]) => wpc[s] \in {"close", "unwind"}
            /\ LeftWith(s) => LeftWith(s)'
            /\ appended'[s] # appended[s] => tarOpen[s] /\ tarOpen'[s]
            /\ (SentinelTaken(s) /\ unfinished'[s] < unfinished[s]) => ~tarOpen[s]
      ]_vars

\* One worker has left its loop by the sentinel and a later one by a failed delete,
\* after appending.
C12_Witness ==
    \E s, t \in Sessions :
        /\ wpc[s] \in {"exited", "killed"}
        /\ wpc[t] = "died"
        /\ appended[t] # <<>>

\* __enter__ called again while a session is active: it tests nothing, replaces
\* self.queue and self.daemon and starts another process; the worker of the session
\* it replaces is left waiting on its queue.
EnterAgain ==
    /\ callerPc = "idle"
    /\ inScope
    /\ nSessions < MaxSessions
    /\ nSessions' = nSessions + 1
    /\ daemon' = nSessions + 1
    /\ wpc' = [wpc EXCEPT ![nSessions + 1] = "open"]
    /\ lastResult' = Result("enter", "ok")
    /\ UNCHANGED <<inScope, scopeError, callerPc, pending, deact, channel, wtask, widx,
                   tarOpen, disk, history, extraction>>

\* Two workers hold the archive open at once.
TwoWriters == \E s, t \in Sessions : s # t /\ tarOpen[s] /\ tarOpen[t]

\* The calls of one controller in any order, activation inside an active session
\* included. What two open handles then write to the one file is not modelled: a run
\* is followed up to the state in which two workers hold the archive open.
NextReenter ==
    \/ ~TwoWriters /\ Enter
    \/ ~TwoWriters /\ EnterAgain
    \/ ~TwoWriters /\ \E epoch \in Epochs, filepaths \in FileLists :
                          TarFilesCheck(epoch, filepaths)
    \/ ~TwoWriters /\ TarFilesPut
    \/ ~TwoWriters /\ \E raised \in BOOLEAN : ExitPut(raised)
    \/ ~TwoWriters /\ ExitAlive
    \/ ~TwoWriters /\ ExitJoin
    \/ ~TwoWriters /\ ExitKill
    \/ ~TwoWriters /\ \E s \in Sessions : WorkerStep(s)

SpecReenter == Init /\ [][NextReenter]_vars

\* C13: whatever the order of the activate, enqueue and deactivate calls, at most one
\* worker at a time is alive with the archive open.
C13_SingleWriter == Cardinality({s \in Sessions : IsAlive(s) /\ tarOpen[s]}) <= 1

\* Epochs around the five-digit width, to compute names for.
EpochSamples == {0, 1, 10, 9999, 10000, 10001, 99999, 100000, 100001, 1000010}

\* For the epochs of the model: the names are the padded epoch, a slash, the basename.
NamesAsPadded == \A e \in Epochs, f \in Paths : ArchName(e, f) = ExpectedName(e, f)

\* For two different epochs and files of one basename: the names differ, and extract
\* selects for an epoch the entry of that epoch and not the other's.
NamesApart ==
    \A e1, e2 \in EpochSamples \cup Epochs, f1, f2 \in Paths :
        (e1 # e2 /\ f1[Len(f1)] = f2[Len(f2)]) =>
            /\ ArchName(e1, f1) # ArchName(e2, f2)
            /\ SelectedMembers(<<Entry(ArchName(e2, f2), InitialFs[f2])>>, e1) = <<>>
            /\ SelectedMembers(<<Entry(ArchName(e1, f1), InitialFs[f1])>>, e1) # <<>>

\* C14: the name of an entry is the epoch padded to five digits, a slash and the
\* basename; for two different non-negative epochs, of more than five digits too, and
\* files of one basename the two names differ and extract selects neither entry for
\* the other epoch; so it is for the entries the workers have put in the archive.
C14_NoCollision ==
    /\ NamesAsPadded
    /\ NamesApart
    /\ Len(archive) = Len(AllAppended(MaxSessions))
    /\ \A i, j \in DOMAIN archive :
          LET hi == AllAppended(MaxSessions)[i]
              hj == AllAppended(MaxSessions)[j]
              selected == SelectedMembers(archive, hi.epoch)
          IN hi.epoch # hj.epoch =>
                /\ archive[i].name # archive[j].name
                /\ \A k \in DOMAIN selected : selected[k].name # archive[j].name
                /\ \E k \in DOMAIN selected : selected[k] = archive[i]

\* The archive holds entries of two epochs, one of more than five digits, for files of
\* one basename.
C14_Witness ==
    \E i, j \in DOMAIN appended[1] :
        /\ appended[1][i].epoch = 1
        /\ appended[1][j].epoch = 100001
        /\ Len(archive) >= 2

\* C15: tar_files goes on to its put only with a task whose epoch is not negative and
\* whose paths all exist when it is called; any other task is rejected there.
C15_ValidatedAtEnqueue ==
    [][(callerPc = "idle" /\ callerPc' = "tf_put") =>
          /\ pending'.epoch >= 0
          /\ \A j \in DOMAIN pending'.files : fs[pending'.files[j]] # Absent
      ]_vars

\* The items put on the queue of session s: its accepted tasks and, once
\* _await_queue has begun, the sentinel.
Puts(s) == Len(accepted[s]) + IF deact[s] # "none" THEN 1 ELSE 0

\* The item the worker took from the queue and has not acknowledged: 1 or 0.
Held(s) ==
    IF wpc[s] \in {"add", "remove", "task_done", "unwind", "died", "close", "last_done"}
    THEN 1 ELSE 0

\* The worker of session s has appended, last, every file of the task it holds, and
\* every one of them is gone from its path.
TaskArchived(s) ==
    LET n == Len(wtask[s].files)
        m == Len(appended[s])
    IN /\ wtask[s].kind = "task"
       /\ m >= n
       /\ \A j \in 1..n :
             /\ appended[s][m - n + j].file = wtask[s].files[j]
             /\ appended[s][m - n + j].epoch = wtask[s].epoch
             /\ fs[wtask[s].files[j]] = Absent

\* C16: the unfinished count of a queue starts at zero, goes up by one with each put
\* and down by one with each task_done and is never negative: it counts the items
\* in the queue and the one in the worker's hands. The worker calls task_done for a
\* task only with all its files appended and deleted, and then lets go of it; an item
\* leaves the queue only at its head, into the worker's hands; join returns only at
\* zero.
C16_AckDiscipline ==
    /\ [](\A s \in Sessions :
            /\ unfinished[s] >= 0
            /\ unfinished[s] <= Puts(s)
            /\ unfinished[s] = Len(queue[s]) + Held(s))
    /\ [][\A s \in Sessions :
            LET put == IF Puts(s)' > Puts(s) THEN 1 ELSE 0
                acked == wpc[s] \in {"task_done", "last_done"} /\ wpc'[s] # wpc[s]
            IN /\ Puts(s)' \in {Puts(s), Puts(s) + 1}
               /\ unfinished'[s] = unfinished[s] + put - (IF acked THEN 1 ELSE 0)
               /\ (wpc[s] = "task_done" /\ acked) =>
                     /\ TaskArchived(s)
                     /\ wtask'[s] = NoTask
                     /\ Held(s)' = 0
               /\ (wpc[s] = "last_done" /\ acked) => Held(s)' = 0
               /\ Len(queue'[s]) < Len(queue[s]) =>
                     /\ wpc[s] = "get"
                     /\ queue'[s] = Tail(queue[s])
                     /\ Held(s)' = 1
                     /\ Head(queue[s]) # Sentinel => wtask'[s] = Head(queue[s])
      ]_vars
    /\ [][(callerPc = "exit_join" /\ callerPc' # callerPc) => unfinished[daemon] = 0]_vars

\* A task of two files has been acknowledged while another item is unfinished.
C16_Witness ==
    \E s \in Sessions :
        /\ Len(accepted[s]) >= 1
        /\ Len(accepted[s][1].files) = 2
        /\ Len(appended[s]) >= 2
        /\ unfinished[s] = 1
        /\ Puts(s) = 2

\* The content file f had at the start is in the archive, under its basename in the
\* directory of some epoch.
InArchive(f) ==
    \E k \in DOMAIN archive, e \in Epochs :
        archive[k] = Entry(ExpectedName(e, f), InitialFs[f])

\* C17: every file of every accepted task is, in every state, at its path with its
\* content or in the archive, or both, also after an append or delete has failed in
\* the middle of a task; a file disappears from its path only when the archive
\* already holds it.
C17_CopyBeforeDelete ==
    /\ [](\A s \in Sessions : \A i \in DOMAIN accepted[s] :
            \A j \in DOMAIN accepted[s][i].files :
                LET f == accepted[s][i].files[j]
                IN fs[f] = InitialFs[f] \/ InArchive(f))
    /\ [][\A f \in Paths : (fs[f] # Absent /\ fs'[f] = Absent) => InArchive(f)]_vars

\* A worker failed on the second file of a task: the first is archived and deleted,
\* the second is archived and still at its path.
C17_Witness ==
    \E s \in Sessions :
        /\ Failed(s)
        /\ widx[s] = 2
        /\ fs[wtask[s].files[1]] = Absent
        /\ fs[wtask[s].files[2]] # Absent
        /\ InArchive(wtask[s].files[2])

\* C18: kill is reached only through a join that has returned: when _await_queue is
\* at its kill, and when a worker is killed, that worker has taken the sentinel, has
\* closed the archive and has acknowledged every item put on its queue; no worker is
\* killed with a task in hand, an append under way or the archive open.
C18_KillAfterDrain ==
    /\ [](callerPc = "exit_kill" =>
            /\ SentinelTaken(daemon)
            /\ wpc[daemon] \in {"exit", "exited"}
            /\ ~tarOpen[daemon]
            /\ queue[daemon] = <<>>
            /\ unfinished[daemon] = 0
            /\ appended[daemon] = ExpectedAppends(accepted[daemon]))
    /\ [][\A s \in Sessions : (wpc[s] # "killed" /\ wpc'[s] = "killed") =>
            /\ callerPc = "exit_kill"
            /\ daemon = s
            /\ wpc[s] = "exit"
            /\ ~tarOpen[s]
            /\ wtask[s] = NoTask
            /\ unfinished[s] = 0
      ]_vars

\* A worker was killed after two tasks.
C18_Witness ==
    \E s \in Sessions :
        /\ wpc[s] = "killed"
        /\ Len(accepted[s]) = 2

\* C19: a deactivation raises "Something is wrong" only in a session whose worker
\* ended on a failed append or delete; with no such failure it returns, whatever the
\* interleaving of caller and worker.
C19_NoSpuriousFailure == \A s \in Sessions : deact[s] = "raised" => Failed(s)

\* C20: a step leaves the archive's entries as they are or adds one entry after
\* them; none is removed, moved or rewritten, those of an archive that was there
\* when a session started included; and only a worker appending adds one.
C20_AppendOnly ==
    [][\/ archive' = archive
       \/ /\ Len(archive') = Len(archive) + 1
          /\ SubSeq(archive', 1, Len(archive)) = archive
          /\ \E s \in Sessions : wpc[s] = "add" /\ tarOpen[s]
      ]_vars

\* The worker of a second session has appended to the archive the first one left.
C20_Witness ==
    /\ appended[1] # <<>>
    /\ appended[2] # <<>>
    /\ Len(archive) = Len(appended[1]) + Len(appended[2])

====
